---- MODULE Spec2Model ----
(***************************************************************************)
(* A model of the example classes of the SOLID principles notebook         *)
(* (solid_principles_notebook/_build/jupyter_execute/notebooks.ipynb).     *)
(*                                                                         *)
(* Every example is a small Python program.  An object is modelled by its  *)
(* attribute dictionary (vars(obj)): a function from attribute names to    *)
(* values.  Each example has its own specification (SpecLSP, ...); the     *)
(* variables of the other examples stay at their idle values.              *)
(***************************************************************************)
EXTENDS Integers, Sequences, FiniteSets, TLC

VARIABLES
    rect,       \* shapes_lsp: vars() of the Rectangle instance
    square,     \* shapes_lsp: vars() of the Square(Rectangle) instance
    ops,        \* shapes_lsp: the last two state-changing statements executed
    returned,   \* shapes_lsp: what the last calculate_area() calls returned
    shape,      \* shapes_ocp: vars() of the conditional Shape instance
    built,      \* shapes_ocp: the arguments shape was constructed with
    area,       \* shapes_ocp: what the last shape.calculate_area() returned
    refactored,      \* shapes_ocp, second version: the Circle, Rectangle or
                     \* Square instance, its class and its vars()
    refactored_args, \* shapes_ocp, second version: the arguments that
                     \* instance was constructed with
    refactored_area, \* shapes_ocp, second version: what the last
                     \* calculate_area() on that instance returned
    shapes,     \* shapes_lsp, second version: the list given to get_total_area
    total,      \* shapes_lsp, second version: what get_total_area returned
    front_end,  \* app_dip: vars() of the FrontEnd instance
    printer,    \* printers_isp: the class of the printer the client holds
    calls,      \* printers_isp: the last two method calls on the printer
    namespace,  \* notebook kernel: the global names, each with its definition
    stdout,     \* the lines printed so far
    raised      \* the exception the last statement raised, "" when none

lspVars == <<rect, square, ops, returned>>

ocpVars == <<shape, built, area>>

polyVars == <<refactored, refactored_args, refactored_area>>

sumVars == <<shapes, total>>

dipVars == <<front_end>>

ispVars == <<printer, calls>>

nbVars == <<namespace>>

vars == <<rect, square, ops, returned, shape, built, area, refactored,
          refactored_args, refactored_area, shapes, total, front_end, printer,
          calls, namespace, stdout, raised>>

\* The values of another example's variables while it is not running.
LspIdle == rect = <<>> /\ square = <<>> /\ ops = <<>> /\ returned = <<>>

OcpIdle == shape = <<>> /\ built = <<>> /\ area = <<>>

PolyIdle ==
    refactored = <<>> /\ refactored_args = <<>> /\ refactored_area = <<>>

SumIdle == shapes = <<>> /\ total = <<>>

DipIdle == front_end = <<>>

IspIdle == printer = <<>> /\ calls = <<>>

NbIdle == namespace = <<>>

NothingPrinted == stdout = <<>>

NoneRaised == raised = ""

\* What an example leaves alone: the variables of the other examples.
lspFrame == <<ocpVars, polyVars, sumVars, dipVars, ispVars, nbVars, stdout,
              raised>>

ocpFrame == <<lspVars, polyVars, sumVars, dipVars, ispVars, nbVars, stdout>>

polyFrame == <<lspVars, ocpVars, sumVars, dipVars, ispVars, nbVars, stdout>>

sumFrame == <<lspVars, ocpVars, polyVars, dipVars, ispVars, nbVars, stdout,
              raised>>

dipFrame == <<lspVars, ocpVars, polyVars, sumVars, ispVars, nbVars>>

ispFrame == <<lspVars, ocpVars, polyVars, sumVars, dipVars, nbVars>>

nbFrame == <<lspVars, ocpVars, polyVars, sumVars, dipVars, ispVars, stdout>>

\* Largest integer the clients pass as a dimension.
MaxVal == 2

Vals == 0..MaxVal

(***************************************************************************)
(* Python attribute dictionaries.                                          *)
(***************************************************************************)
EmptyDict == <<>>

\* d[k] = v of a Python dict: the key is added when it is absent.
DictSet(d, k, v) == [x \in (DOMAIN d) \cup {k} |-> IF x = k THEN v ELSE d[x]]

\* object.__setattr__, reached by plain attribute assignment and by
\* super().__setattr__(key, value): an ordinary name becomes an entry of the
\* instance dictionary; the special name __dict__ rebinds the dictionary.
object_setattr(d, key, value) ==
    IF key = "__dict__" THEN value ELSE DictSet(d, key, value)

(***************************************************************************)
(* shapes_lsp.py, first version: Rectangle and Square(Rectangle).          *)
(***************************************************************************)
\* A Rectangle whose attribute assignment couples both sides (what
\* Square does): the rectangle's sides are no longer independent.
Rectangle_setattr_coupled(d, key, value) ==
    LET d1 == object_setattr(d, key, value)
    IN  IF key \in {"width", "height"}
        THEN DictSet(DictSet(d1, "width", value), "height", value)
        ELSE d1

\* Rectangle defines no __setattr__: assignment is object.__setattr__.
Rectangle_setattr(d, key, value) == object_setattr(d, key, value)

\* Rectangle.__init__(self, width, height)
Rectangle_init(width, height) ==
    Rectangle_setattr(Rectangle_setattr(EmptyDict, "width", width),
                      "height", height)

\* Rectangle.calculate_area(self), inherited by Square(Rectangle)
Rectangle_calculate_area(d) == d["width"] * d["height"]

\* Square.__setattr__ that couples the sides only when the key is "width".
Square_setattr_width_key_only(d, key, value) ==
    LET d1 == object_setattr(d, key, value)
    IN  IF key = "width"
        THEN DictSet(DictSet(d1, "width", value), "height", value)
        ELSE d1

\* Square without its __setattr__ override: plain attribute assignment.
Square_setattr_uncoupled(d, key, value) == object_setattr(d, key, value)

\* Square.__setattr__ without the line that copies the value to the width.
Square_setattr_height_only(d, key, value) ==
    LET d1 == object_setattr(d, key, value)
    IN  IF key \in {"width", "height"}
        THEN DictSet(d1, "height", value)
        ELSE d1

\* Square.__setattr__(self, key, value)
Square_setattr(d, key, value) ==
    LET d1 == object_setattr(d, key, value)
    IN  IF key \in {"width", "height"}
        THEN DictSet(DictSet(d1, "width", value), "height", value)
        ELSE d1

\* Square.__init__(self, side): Rectangle.__init__(side, side) run on a
\* Square, so both assignments go through Square.__setattr__.
Square_init(side) ==
    Square_setattr(Square_setattr(EmptyDict, "width", side), "height", side)

\* The names a client assigns: the two sides, one more ordinary attribute.
AttrNames == {"width", "height", "color"}

\* The dictionaries a client may bind to __dict__.
Dicts == [{"width", "height"} -> Vals]

Assignments ==
    {[op |-> "setattr", key |-> k, value |-> v] : k \in AttrNames, v \in Vals}
    \cup {[op |-> "setattr", key |-> "__dict__", value |-> d] : d \in Dicts}

\* The history keeps the last two statements.
Remember(h, o) == IF Len(h) < 2 THEN Append(h, o) ELSE <<h[2], o>>

InitLSP ==
    \E s \in Vals :
        /\ rect = Rectangle_init(s, s)
        /\ square = Square_init(s)
        /\ ops = <<[op |-> "init", side |-> s]>>
        /\ returned = <<>>
        /\ OcpIdle /\ PolyIdle /\ SumIdle /\ DipIdle /\ IspIdle /\ NbIdle
        /\ NothingPrinted /\ NoneRaised

\* The client runs  obj.<key> = value  on the rectangle and on the square.
Assign(a) ==
    /\ rect' = Rectangle_setattr(rect, a.key, a.value)
    /\ square' = Square_setattr(square, a.key, a.value)
    /\ ops' = Remember(ops, a)
    /\ returned' = <<>>
    /\ UNCHANGED lspFrame

\* The client calls calculate_area() on both objects.
CalculateArea ==
    /\ returned' = <<Rectangle_calculate_area(rect),
                     Rectangle_calculate_area(square)>>
    /\ UNCHANGED <<rect, square, ops>>
    /\ UNCHANGED lspFrame

NextLSP ==
    \/ \E a \in Assignments : Assign(a)
    \/ CalculateArea

SpecLSP == InitLSP /\ [][NextLSP]_vars

(***************************************************************************)
(* Claims about shapes_lsp.py, first version.                              *)
(***************************************************************************)
SquareValid == square["width"] = square["height"]

OrdinaryAssignments == {a \in Assignments : a.key # "__dict__"}

C2_LastAssignedValueWins ==
    /\ [](ops[Len(ops)].op = "init" =>
            square = [width |-> ops[Len(ops)].side,
                      height |-> ops[Len(ops)].side])
    /\ [][\A a \in OrdinaryAssignments :
            (Assign(a) /\ a.key \in {"width", "height"}) =>
                /\ DOMAIN square' = DOMAIN square \cup {"width", "height"}
                /\ square'["width"] = a.value
                /\ square'["height"] = a.value
                /\ \A k \in DOMAIN square \ {"width", "height"} :
                        square'[k] = square[k]
                /\ DOMAIN square = {"width", "height"} =>
                        square' = [width |-> a.value, height |-> a.value]]_vars

\* C2 witness: after .width = 1 and then .height = 2 the dictionary is
\* exactly {width: 2, height: 2}.
C2_Witness ==
    /\ Len(ops) = 2
    /\ ops[1] = [op |-> "setattr", key |-> "width", value |-> 1]
    /\ ops[2] = [op |-> "setattr", key |-> "height", value |-> 2]
    /\ square = [width |-> 2, height |-> 2]

\* C3: after the same two statements, .width = w then .height = h, run on a
\* Rectangle and on a Square(Rectangle), calculate_area() returns w*h for the
\* rectangle and h*h for the square.
C3_SameStatementsDifferentAreas ==
    (/\ Len(ops) = 2
     /\ ops[1].op = "setattr" /\ ops[1].key = "width"
     /\ ops[2].op = "setattr" /\ ops[2].key = "height"
     /\ returned # <<>>)
    => /\ returned[1] = ops[1].value * ops[2].value
       /\ returned[2] = ops[2].value * ops[2].value

\* C3 witness: both objects ran .width = 1 and .height = 2 and the two
\* calculate_area() results differ: the square cannot stand in for the
\* rectangle.
C3_Witness ==
    /\ Len(ops) = 2
    /\ ops[1] = [op |-> "setattr", key |-> "width", value |-> 1]
    /\ ops[2] = [op |-> "setattr", key |-> "height", value |-> 2]
    /\ returned = <<2, 4>>
    /\ returned[1] # returned[2]

\* C4: assigning a Rectangle's .width leaves its .height unchanged, assigning
\* .height leaves .width unchanged (assigning another ordinary attribute
\* leaves both), and calculate_area() returns the product of the current
\* width and the current height.
C4_RectangleSidesIndependent ==
    /\ [][\A a \in OrdinaryAssignments :
            Assign(a) =>
                /\ a.key = "width" =>
                        rect'["width"] = a.value /\ rect'["height"] = rect["height"]
                /\ a.key = "height" =>
                        rect'["height"] = a.value /\ rect'["width"] = rect["width"]
                /\ a.key = "color" =>
                        rect'["width"] = rect["width"] /\ rect'["height"] = rect["height"]]_vars
    /\ [](returned # <<>> => returned[1] = rect["width"] * rect["height"])

\* C4 witness: the rectangle ran .height = 2 and then .width = 1, holds width 1
\* and height 2, and calculate_area() returned 2.
C4_Witness ==
    /\ Len(ops) = 2
    /\ ops[1] = [op |-> "setattr", key |-> "height", value |-> 2]
    /\ ops[2] = [op |-> "setattr", key |-> "width", value |-> 1]
    /\ rect["width"] = 1 /\ rect["height"] = 2
    /\ returned # <<>> /\ returned[1] = 2

(***************************************************************************)
(* Python numbers.  An int is a TLA+ integer.  A float is an IEEE-754      *)
(* double [mant, exp] of value mant * 2^exp, with 2^52 <= mant < 2^53 (or  *)
(* mant zero).  A mantissa does not fit a 32-bit integer, so it is a       *)
(* natural number written as its limbs in base 10^4, lowest limb first,    *)
(* with no leading zero limb (zero is the empty sequence).                 *)
(***************************************************************************)
Base == 10 ^ 4

RECURSIVE Trim(_)
Trim(x) ==
    IF Len(x) > 0 /\ x[Len(x)] = 0 THEN Trim(SubSeq(x, 1, Len(x) - 1)) ELSE x

Rest(x) == IF x = <<>> THEN <<>> ELSE Tail(x)

Limb(x) == IF x = <<>> THEN 0 ELSE x[1]

\* x * n + c, for 0 <= n, c < 10^5
RECURSIVE MulCarry(_, _, _)
MulCarry(x, n, c) ==
    IF x = <<>> /\ c = 0
    THEN <<>>
    ELSE LET t == Limb(x) * n + c
         IN  <<t % Base>> \o MulCarry(Rest(x), n, t \div Base)

MulSmall(x, n) == Trim(MulCarry(x, n, 0))

AddSmall(x, c) == Trim(MulCarry(x, 1, c))

RECURSIVE AddCarry(_, _, _)
AddCarry(x, y, c) ==
    IF x = <<>> /\ y = <<>> /\ c = 0
    THEN <<>>
    ELSE LET t == Limb(x) + Limb(y) + c
         IN  <<t % Base>> \o AddCarry(Rest(x), Rest(y), t \div Base)

Add(x, y) == Trim(AddCarry(x, y, 0))

\* x - y, for x >= y
RECURSIVE SubBorrow(_, _, _)
SubBorrow(x, y, b) ==
    IF x = <<>>
    THEN <<>>
    ELSE LET t == Limb(x) - Limb(y) - b
         IN  <<(t + Base) % Base>>
             \o SubBorrow(Rest(x), Rest(y), IF t < 0 THEN 1 ELSE 0)

Sub(x, y) == Trim(SubBorrow(x, y, 0))

RECURSIVE LessFrom(_, _, _)
LessFrom(x, y, i) ==
    IF i = 0 THEN FALSE
    ELSE IF x[i] # y[i] THEN x[i] < y[i]
    ELSE LessFrom(x, y, i - 1)

Less(x, y) ==
    IF Len(x) # Len(y) THEN Len(x) < Len(y) ELSE LessFrom(x, y, Len(x))

LessEq(x, y) == ~Less(y, x)

\* |x - y|
Dist(x, y) == IF Less(x, y) THEN Sub(y, x) ELSE Sub(x, y)

\* Quotient and remainder of x by d, limbs i..1 with r carried in;
\* for 0 < d < 10^5.
RECURSIVE DivFrom(_, _, _, _)
DivFrom(x, d, i, r) ==
    IF i = 0
    THEN [q |-> <<>>, r |-> r]
    ELSE LET t == r * Base + x[i]
             low == DivFrom(x, d, i - 1, t % d)
         IN  [q |-> Append(low.q, t \div d), r |-> low.r]

DivMod(x, d) ==
    LET dm == DivFrom(x, d, Len(x), 0) IN [q |-> Trim(dm.q), r |-> dm.r]

RECURSIVE MulPow2(_, _)
MulPow2(x, k) ==
    IF k = 0 THEN x
    ELSE IF k >= 10 THEN MulPow2(MulSmall(x, 2 ^ 10), k - 10)
    ELSE MulPow2(MulSmall(x, 2), k - 1)

RECURSIVE MulPow10(_, _)
MulPow10(x, k) ==
    IF k = 0 THEN x
    ELSE IF k >= 4 THEN MulPow10(MulSmall(x, 10 ^ 4), k - 4)
    ELSE MulPow10(MulSmall(x, 10), k - 1)

TwoPow52 == MulPow2(<<1>>, 52)

TwoPow53 == MulPow2(<<1>>, 53)

\* The least k >= from with p < 2^(53 + k).
RECURSIVE ShiftFor(_, _)
ShiftFor(p, from) ==
    IF Less(p, MulPow2(TwoPow53, from)) THEN from ELSE ShiftFor(p, from + 1)

\* p / 2^k rounded to the nearest integer, a tie to the even one.
RoundHalfEven(p, k) ==
    IF k = 0 THEN p
    ELSE LET dm == DivMod(p, 2 ^ k)
             half == 2 ^ (k - 1)
         IN  IF dm.r > half \/ (dm.r = half /\ Limb(dm.q) % 2 = 1)
             THEN AddSmall(dm.q, 1)
             ELSE dm.q

FloatZero == [type |-> "float", mant |-> <<>>, exp |-> 0]

\* float * int for a positive float f and an int 0 <= n < 2^13 (float(n) is
\* exact): the exact product rounded to 53 bits, round-half-even.
float_mul_int(f, n) ==
    IF n = 0 \/ f.mant = <<>>
    THEN FloatZero
    ELSE LET p == MulSmall(f.mant, n)
             k == ShiftFor(p, 0)
             m == RoundHalfEven(p, k)
         IN  IF m = TwoPow53
             THEN [type |-> "float", mant |-> TwoPow52, exp |-> f.exp + k + 1]
             ELSE [type |-> "float", mant |-> m, exp |-> f.exp + k]

\* math.pi = 0x1.921fb54442d18p+1 = 7074237752028440 * 2^-51
pi == [type |-> "float", mant |-> <<8440, 5202, 2377, 7074>>, exp |-> 0 - 51]

PyInt(n) == [type |-> "int", value |-> n]

PyNone == [type |-> "NoneType"]

(***************************************************************************)
(* shapes_ocp.py, first version: the conditional Shape class.              *)
(***************************************************************************)
\* The dimensions the clients pass: the small integers and the transcripts'
\* 5 and 10.
Dims == Vals \cup {5, 10}

ShapeTypes == {"rectangle", "circle", "square"}

KwNames == {"width", "height", "radius"}

\* **kwargs: any of the three keywords, each with a dimension.
Kwargs == UNION {[S -> Dims] : S \in SUBSET KwNames}

NoResult == [type |-> "no result"]

\* Shape.__init__ with  self.height = kwargs["width"].
Shape_init_height_from_width(shape_type, kwargs) ==
    LET d0 == object_setattr(EmptyDict, "shape_type", shape_type)
    IN  IF shape_type = "rectangle"
        THEN IF "width" \notin DOMAIN kwargs \/ "height" \notin DOMAIN kwargs
             THEN [raised |-> "KeyError"]
             ELSE [raised |-> "",
                   self |-> object_setattr(
                                object_setattr(d0, "width", kwargs["width"]),
                                "height", kwargs["width"])]
        ELSE IF shape_type = "circle"
        THEN IF "radius" \notin DOMAIN kwargs
             THEN [raised |-> "KeyError"]
             ELSE [raised |-> "",
                   self |-> object_setattr(d0, "radius", kwargs["radius"])]
        ELSE [raised |-> "", self |-> d0]

\* Shape.__init__(self, shape_type, **kwargs): the new object's dictionary,
\* or the KeyError of a missing keyword.
Shape_init(shape_type, kwargs) ==
    LET d0 == object_setattr(EmptyDict, "shape_type", shape_type)
    IN  IF shape_type = "rectangle"
        THEN IF "width" \notin DOMAIN kwargs \/ "height" \notin DOMAIN kwargs
             THEN [raised |-> "KeyError"]
             ELSE [raised |-> "",
                   self |-> object_setattr(
                                object_setattr(d0, "width", kwargs["width"]),
                                "height", kwargs["height"])]
        ELSE IF shape_type = "circle"
        THEN IF "radius" \notin DOMAIN kwargs
             THEN [raised |-> "KeyError"]
             ELSE [raised |-> "",
                   self |-> object_setattr(d0, "radius", kwargs["radius"])]
        ELSE [raised |-> "", self |-> d0]

\* Shape.calculate_area with  pi * self.radius * 2.
Shape_calculate_area_radius_times_2(d) ==
    IF d["shape_type"] = "rectangle"
    THEN PyInt(d["width"] * d["height"])
    ELSE IF d["shape_type"] = "circle"
    THEN float_mul_int(pi, d["radius"] * 2)
    ELSE PyNone

\* Shape.calculate_area(self): an int for a rectangle, the float
\* pi * radius**2 for a circle, None for any other shape type.
Shape_calculate_area(d) ==
    IF d["shape_type"] = "rectangle"
    THEN PyInt(d["width"] * d["height"])
    ELSE IF d["shape_type"] = "circle"
    THEN float_mul_int(pi, d["radius"] * d["radius"])
    ELSE PyNone

InitOCP ==
    \E t \in ShapeTypes, kw \in Kwargs :
        /\ Shape_init(t, kw).raised = ""
        /\ shape = Shape_init(t, kw).self
        /\ built = [shape_type |-> t, kwargs |-> kw]
        /\ area = NoResult
        /\ raised = ""
        /\ LspIdle /\ PolyIdle /\ SumIdle /\ DipIdle /\ IspIdle /\ NbIdle
        /\ NothingPrinted

\* shape = Shape(t, **kw): a constructor that raises binds nothing.
NewShape(t, kw) ==
    LET r == Shape_init(t, kw)
    IN  /\ IF r.raised = ""
           THEN /\ shape' = r.self
                /\ built' = [shape_type |-> t, kwargs |-> kw]
                /\ area' = NoResult
                /\ raised' = ""
           ELSE /\ raised' = r.raised
                /\ UNCHANGED <<shape, built, area>>
        /\ UNCHANGED ocpFrame

\* shape.calculate_area()
ShapeCalculateArea ==
    /\ area' = Shape_calculate_area(shape)
    /\ raised' = ""
    /\ UNCHANGED <<shape, built>>
    /\ UNCHANGED ocpFrame

NextOCP ==
    \/ \E t \in ShapeTypes, kw \in Kwargs : NewShape(t, kw)
    \/ ShapeCalculateArea

SpecOCP == InitOCP /\ [][NextOCP]_vars

(***************************************************************************)
(* Claims about the conditional Shape.                                     *)
(***************************************************************************)
\* C5: Shape("rectangle", width=w, height=h).calculate_area() returns the
\* int w*h; width 10 and height 5 give 50.
C5_RectangleArea ==
    (built["shape_type"] = "rectangle" /\ area # NoResult) =>
        /\ area = PyInt(built["kwargs"]["width"] * built["kwargs"]["height"])
        /\ (built["kwargs"]["width"] = 10 /\ built["kwargs"]["height"] = 5)
                => area = PyInt(50)

\* C5 witness: Shape("rectangle", width=10, height=5).calculate_area()
\* returned 50.
C5_Witness ==
    /\ built["shape_type"] = "rectangle"
    /\ built["kwargs"] = [width |-> 10, height |-> 5]
    /\ area = PyInt(50)

\* pi to 18 decimals: PiLow / 10^18 < pi < PiHigh / 10^18.
PiLow == <<3238, 8979, 6535, 1592, 314>>

PiHigh == <<3239, 8979, 6535, 1592, 314>>

\* The float x (of exponent <= 0) is less than one unit in the last place
\* away from the real number pi * n.
WithinOneUlpOfPiTimes(x, n) ==
    /\ x.exp <= 0
    /\ LessEq(MulPow10(x.mant, 18),
              Add(MulPow2(MulSmall(PiHigh, n), 0 - x.exp), MulPow10(<<1>>, 18)))
    /\ LessEq(MulPow2(MulSmall(PiLow, n), 0 - x.exp),
              MulPow10(AddSmall(x.mant, 1), 18))

\* The decimal number digits / 10^scale lies within half a unit in the last
\* place of the float x (of exponent <= 0): reading the decimal gives x.
ReadsAs(digits, scale, x) ==
    /\ x.exp <= 0
    /\ LessEq(MulSmall(Dist(MulPow10(x.mant, scale),
                            MulPow2(digits, 0 - x.exp)), 2),
              MulPow10(<<1>>, scale))

\* The float x (of exponent <= 0) rounded to scale decimals is
\* digits / 10^scale.
RoundsTo(digits, scale, x) ==
    /\ x.exp <= 0
    /\ Less(MulSmall(Dist(MulPow10(x.mant, scale),
                          MulPow2(digits, 0 - x.exp)), 2),
            MulPow2(<<1>>, 0 - x.exp))

\* C6: Shape("circle", radius=r).calculate_area() returns a float, the double
\* nearest to math.pi * r**2, which is within one unit in the last place of
\* the real pi * r**2; for radius 5 it is the float Python prints as
\* 78.53981633974483 (the shortest decimal that reads back as it: 16 digits
\* do, the neighbouring 15-digit decimals do not), which is 78.5398 to four
\* decimals.
C6_CircleArea ==
    (built["shape_type"] = "circle" /\ area # NoResult) =>
        LET r == built["kwargs"]["radius"]
        IN  /\ area.type = "float"
            /\ r = 0 => area = FloatZero
            /\ r > 0 =>
                /\ LessEq(TwoPow52, area.mant) /\ Less(area.mant, TwoPow53)
                /\ WithinOneUlpOfPiTimes(area, r * r)
            /\ r = 5 =>
                /\ ReadsAs(<<4483, 3397, 9816, 7853>>, 14, area)
                /\ ~ReadsAs(<<7448, 6339, 3981, 785>>, 13, area)
                /\ ~ReadsAs(<<7449, 6339, 3981, 785>>, 13, area)
                /\ RoundsTo(<<5398, 78>>, 4, area)

\* C6 witness: Shape("circle", radius=5).calculate_area() returned the float
\* 5526748243772219 * 2^-46 = 0x1.3a28c59d5433bp+6.
C6_Witness ==
    /\ built["shape_type"] = "circle"
    /\ built["kwargs"]["radius"] = 5
    /\ area = [type |-> "float", mant |-> <<2219, 4377, 7482, 5526>>,
               exp |-> 0 - 46]

(***************************************************************************)
(* shapes_lsp.py, second version: Rectangle(Shape) and Square(Shape) are   *)
(* siblings, and get_total_area sums the areas of a list of them.          *)
(***************************************************************************)
\* Longest list given to get_total_area.
MaxShapes == 2

\* Rectangle(Shape).__init__(self, width, height)
SiblingRectangle_init(width, height) ==
    [class |-> "Rectangle",
     vars |-> object_setattr(object_setattr(EmptyDict, "width", width),
                             "height", height)]

\* Square(Shape).__init__(self, side)
SiblingSquare_init(side) ==
    [class |-> "Square", vars |-> object_setattr(EmptyDict, "side", side)]

\* Rectangle(Shape).calculate_area(self)
SiblingRectangle_calculate_area(d) == d["width"] * d["height"]

\* Square(Shape).calculate_area(self)
SiblingSquare_calculate_area(d) == d["side"] ^ 2

\* shape.calculate_area(): the method of the object's class.
calculate_area(obj) ==
    IF obj.class = "Rectangle"
    THEN SiblingRectangle_calculate_area(obj.vars)
    ELSE SiblingSquare_calculate_area(obj.vars)

\* sum(iterable): start at 0, add the items from left to right.
RECURSIVE sum(_, _)
sum(items, acc) ==
    IF items = <<>> THEN acc ELSE sum(Tail(items), acc + Head(items))

\* get_total_area that leaves the last shape out.
get_total_area_without_last(list) ==
    sum([i \in 1..(Len(list) - 1) |-> calculate_area(list[i])], 0)

\* get_total_area(shapes)
get_total_area(list) ==
    sum([i \in 1..Len(list) |-> calculate_area(list[i])], 0)

\* The shapes a client builds: rectangles and squares of small dimensions,
\* and the transcript's Rectangle(10, 5) and Square(5).
ShapeObjects ==
    {SiblingRectangle_init(w, h) : w \in Vals, h \in Vals}
    \cup {SiblingRectangle_init(10, 5)}
    \cup {SiblingSquare_init(s) : s \in Vals \cup {5}}

InitSum ==
    /\ shapes = <<>>
    /\ total = NoResult
    /\ LspIdle /\ OcpIdle /\ PolyIdle /\ DipIdle /\ IspIdle /\ NbIdle
    /\ NothingPrinted /\ NoneRaised

\* The client adds a shape to its list.
AppendShape(obj) ==
    /\ Len(shapes) < MaxShapes
    /\ shapes' = Append(shapes, obj)
    /\ total' = NoResult
    /\ UNCHANGED sumFrame

\* get_total_area(shapes)
GetTotalArea ==
    /\ total' = PyInt(get_total_area(shapes))
    /\ UNCHANGED shapes
    /\ UNCHANGED sumFrame

NextSum ==
    \/ \E obj \in ShapeObjects : AppendShape(obj)
    \/ GetTotalArea

SpecSum == InitSum /\ [][NextSum]_vars

(***************************************************************************)
(* Claims about get_total_area.                                            *)
(***************************************************************************)
\* The sum of f over a finite set.
RECURSIVE SetSum(_, _)
SetSum(S, f) ==
    IF S = {} THEN 0
    ELSE LET x == CHOOSE y \in S : TRUE IN f[x] + SetSum(S \ {x}, f)

\* The sum of width*height over the rectangles at the positions of a list.
RectanglesSum(list) ==
    LET at == {i \in 1..Len(list) : list[i].class = "Rectangle"}
    IN  SetSum(at, [i \in at |-> list[i].vars["width"] * list[i].vars["height"]])

\* The sum of side**2 over the squares at the positions of a list.
SquaresSum(list) ==
    LET at == {i \in 1..Len(list) : list[i].class = "Square"}
    IN  SetSum(at, [i \in at |-> list[i].vars["side"] * list[i].vars["side"]])

\* The rearrangements of the positions of a list.
Rearrangements(n) ==
    {p \in [1..n -> 1..n] : \A i, j \in 1..n : p[i] = p[j] => i = j}

\* C7: get_total_area(shapes) returns the sum of width*height over the
\* rectangles plus side**2 over the squares of the list, whatever the order
\* of the list: 0 for the empty list, 75 for [Rectangle(10, 5), Square(5)].
C7_TotalArea ==
    total # NoResult =>
        /\ total = PyInt(RectanglesSum(shapes) + SquaresSum(shapes))
        /\ \A p \in Rearrangements(Len(shapes)) :
                PyInt(get_total_area([i \in 1..Len(shapes) |-> shapes[p[i]]]))
                    = total
        /\ shapes = <<>> => total = PyInt(0)
        /\ shapes = <<SiblingRectangle_init(10, 5), SiblingSquare_init(5)>>
                => total = PyInt(75)

\* C7 witness: get_total_area([Square(5), Rectangle(10, 5)]), the transcript's
\* list in the other order, returned 75.
C7_Witness ==
    /\ shapes = <<SiblingSquare_init(5), SiblingRectangle_init(10, 5)>>
    /\ total = PyInt(75)

(***************************************************************************)
(* app_dip.py, second version: FrontEnd depends on the DataSource          *)
(* abstraction; Database and API implement it.                             *)
(***************************************************************************)
\* Most lines a session prints.
MaxLines == 5

RECURSIVE join(_, _)
join(sep, args) ==
    IF args = <<>> THEN ""
    ELSE IF Len(args) = 1 THEN args[1]
    ELSE args[1] \o sep \o join(sep, Tail(args))

\* print(*args): the arguments joined by one space, as one line of stdout.
print_line(args) == join(" ", args)

\* Database.get_data(self)
Database_get_data == "Data from the database"

\* API.get_data(self)
API_get_data == "Data from the API"

\* self.data_source.get_data(): the method of the data source's class.
get_data(data_source) ==
    IF data_source = "Database" THEN Database_get_data ELSE API_get_data

\* The classes a client may try to instantiate as a data source; DataSource
\* is abstract.
DataSourceClasses == {"DataSource", "Database", "API"}

\* FrontEnd.__init__(self, data_source)
FrontEnd_init(data_source) ==
    object_setattr(EmptyDict, "data_source", data_source)

\* FrontEnd.display_data that prints the label and the data as two lines.
FrontEnd_display_data_two_lines(self) ==
    <<print_line(<<"Display data:">>),
      print_line(<<get_data(self["data_source"])>>)>>

\* FrontEnd.display_data(self): the lines it prints.
FrontEnd_display_data(self) ==
    <<print_line(<<"Display data:", get_data(self["data_source"])>>)>>

InitDIP ==
    /\ \E c \in DataSourceClasses \ {"DataSource"} :
            front_end = FrontEnd_init(c)
    /\ stdout = <<>>
    /\ raised = ""
    /\ LspIdle /\ OcpIdle /\ PolyIdle /\ SumIdle /\ IspIdle /\ NbIdle

\* front_end = FrontEnd(c()): instantiating the abstract DataSource raises
\* TypeError and binds nothing.
NewFrontEnd(c) ==
    /\ IF c = "DataSource"
       THEN /\ raised' = "TypeError: Can't instantiate abstract class "
                            \o "DataSource with abstract method get_data"
            /\ UNCHANGED front_end
       ELSE /\ front_end' = FrontEnd_init(c)
            /\ raised' = ""
    /\ UNCHANGED stdout
    /\ UNCHANGED dipFrame

\* front_end.display_data()
DisplayData ==
    /\ Len(stdout) + Len(FrontEnd_display_data(front_end)) <= MaxLines
    /\ stdout' = stdout \o FrontEnd_display_data(front_end)
    /\ raised' = ""
    /\ UNCHANGED front_end
    /\ UNCHANGED dipFrame

NextDIP ==
    \/ \E c \in DataSourceClasses : NewFrontEnd(c)
    \/ DisplayData

SpecDIP == InitDIP /\ [][NextDIP]_vars

(***************************************************************************)
(* Claims about the abstraction-based FrontEnd.                            *)
(***************************************************************************)
\* C8: display_data() emits exactly one line, "Display data: " followed by
\* what the data source's get_data() returns ("Display data: Data from the
\* database" for a Database, "Display data: Data from the API" for an API),
\* and leaves the data source the FrontEnd holds unchanged.
C8_DisplayData ==
    [][DisplayData =>
        /\ Len(stdout') = Len(stdout) + 1
        /\ SubSeq(stdout', 1, Len(stdout)) = stdout
        /\ stdout'[Len(stdout')]
                = "Display data: " \o get_data(front_end["data_source"])
        /\ front_end["data_source"] = "Database"
                => stdout'[Len(stdout')] = "Display data: Data from the database"
        /\ front_end["data_source"] = "API"
                => stdout'[Len(stdout')] = "Display data: Data from the API"
        /\ front_end' = front_end]_vars

\* C8 witness: a FrontEnd(API()) displayed its data twice after a
\* FrontEnd(Database()) displayed its data once.
C8_Witness ==
    /\ front_end = FrontEnd_init("API")
    /\ stdout = <<"Display data: Data from the database",
                  "Display data: Data from the API",
                  "Display data: Data from the API">>

(***************************************************************************)
(* printers_isp.py, first version: the unsegregated Printer interface,     *)
(* implemented by OldPrinter and ModernPrinter.                            *)
(***************************************************************************)
\* Most lines a printer session prints.
MaxPrinted == 3

\* The documents the clients pass (strings: an f-string inserts them as
\* they are).
Documents == {"report", "photo"}

PrinterClasses == {"OldPrinter", "ModernPrinter"}

Methods == {"print", "fax", "scan"}

\* What a method call does: the lines it prints and the exception it raises.
Outcome(lines, exception) == [lines |-> lines, raised |-> exception]

\* OldPrinter.print(self, document)
OldPrinter_print(document) ==
    Outcome(<<print_line(<<"Printing " \o document \o " in black and white...">>)>>, "")

\* OldPrinter.fax that prints before it raises.
OldPrinter_fax_prints_first(document) ==
    Outcome(<<print_line(<<"Faxing " \o document \o "...">>)>>,
            "NotImplementedError: Fax functionality not supported")

\* OldPrinter.fax(self, document)
OldPrinter_fax(document) ==
    Outcome(<<>>, "NotImplementedError: Fax functionality not supported")

\* OldPrinter.scan(self, document)
OldPrinter_scan(document) ==
    Outcome(<<>>, "NotImplementedError: Scan functionality not supported")

\* ModernPrinter.print(self, document)
ModernPrinter_print(document) ==
    Outcome(<<print_line(<<"Printing " \o document \o " in color...">>)>>, "")

\* ModernPrinter.fax(self, document)
ModernPrinter_fax(document) ==
    Outcome(<<print_line(<<"Faxing " \o document \o "...">>)>>, "")

\* ModernPrinter.scan(self, document)
ModernPrinter_scan(document) ==
    Outcome(<<print_line(<<"Scanning " \o document \o "...">>)>>, "")

\* printer.<method>(document): the method of the printer's class.
call_method(class, method, document) ==
    IF class = "OldPrinter"
    THEN CASE method = "print" -> OldPrinter_print(document)
           [] method = "fax" -> OldPrinter_fax(document)
           [] method = "scan" -> OldPrinter_scan(document)
    ELSE CASE method = "print" -> ModernPrinter_print(document)
           [] method = "fax" -> ModernPrinter_fax(document)
           [] method = "scan" -> ModernPrinter_scan(document)

\* The history keeps the last two calls.
RememberCall(h, c) == IF Len(h) < 2 THEN Append(h, c) ELSE <<h[2], c>>

InitISP ==
    /\ printer \in PrinterClasses
    /\ calls = <<>>
    /\ stdout = <<>>
    /\ raised = ""
    /\ LspIdle /\ OcpIdle /\ PolyIdle /\ SumIdle /\ DipIdle /\ NbIdle

\* printer.<method>(document)
Call(method, document) ==
    LET o == call_method(printer, method, document)
    IN  /\ Len(stdout) + Len(o.lines) <= MaxPrinted
        /\ stdout' = stdout \o o.lines
        /\ raised' = o.raised
        /\ calls' = RememberCall(calls, [method |-> method,
                                         document |-> document,
                                         raised |-> o.raised])
        /\ UNCHANGED printer
        /\ UNCHANGED ispFrame

NextISP == \E method \in Methods, document \in Documents : Call(method, document)

SpecISP == InitISP /\ [][NextISP]_vars

(***************************************************************************)
(* Claims about the unsegregated printers.                                 *)
(***************************************************************************)
\* C9: on an OldPrinter, fax(document) raises NotImplementedError "Fax
\* functionality not supported" and scan(document) raises NotImplementedError
\* "Scan functionality not supported", neither printing anything, while
\* print(document) raises nothing and prints "Printing <document> in black
\* and white...", also right after a failed fax or scan.
C9_OldPrinter ==
    [][\A document \in Documents :
        printer = "OldPrinter" =>
            /\ Call("fax", document) =>
                /\ raised' = "NotImplementedError: Fax functionality not supported"
                /\ stdout' = stdout
            /\ Call("scan", document) =>
                /\ raised' = "NotImplementedError: Scan functionality not supported"
                /\ stdout' = stdout
            /\ Call("print", document) =>
                /\ raised' = ""
                /\ stdout' = Append(stdout, "Printing " \o document
                                            \o " in black and white...")
            /\ (raised # "" /\ Len(stdout) < MaxPrinted)
                    => ENABLED Call("print", document)]_vars

\* C9 witness: an OldPrinter failed to fax the report and then printed it.
C9_Witness ==
    /\ printer = "OldPrinter"
    /\ calls = <<[method |-> "fax", document |-> "report",
                  raised |-> "NotImplementedError: Fax functionality not supported"],
                 [method |-> "print", document |-> "report", raised |-> ""]>>
    /\ raised = ""
    /\ stdout = <<"Printing report in black and white...">>

(***************************************************************************)
(* The notebook: its code cells that define classes, executed by one       *)
(* kernel.  A cell is the sequence of its top-level statements; executing  *)
(* it binds names in the kernel's global namespace, one statement after    *)
(* the other.  A cell is named by its execution count in the notebook.     *)
(***************************************************************************)
\* from <module> import <name>
Import(name) == [name |-> name, import |-> TRUE, uses |-> <<>>]

\* class <name>(<bases>) with its decorators: the global names the class
\* statement evaluates, in the order it evaluates them.
Class(name, uses) == [name |-> name, import |-> FALSE, uses |-> uses]

AbcImports == <<Import("ABC"), Import("abstractmethod")>>

Abstract == <<"ABC", "abstractmethod">>

\* The Square(Rectangle) cell with a Rectangle class of its own before it.
SquareCell_with_own_Rectangle ==
    <<Class("Rectangle", <<>>), Class("Square", <<"Rectangle">>)>>

\* The cell  class Square(Rectangle): ...  (its  # ...  stands for the rest
\* of shapes_lsp.py, which the cell does not hold).
SquareCell == <<Class("Square", <<"Rectangle">>)>>

Cells == {1, 2, 3, 6, 7, 8, 10, 12, 13, 14, 15}

Cell(c) ==
    CASE c = 1 -> <<Import("Path"), Import("ZipFile"), Class("FileManager", <<>>)>>
      [] c = 2 -> <<Import("Path"), Import("ZipFile"), Class("FileManager", <<>>),
                    Class("ZipFileManager", <<>>)>>
      [] c = 3 -> <<Import("pi"), Class("Shape", <<>>)>>
      [] c = 6 -> AbcImports \o
                  <<Import("pi"), Class("Shape", Abstract),
                    Class("Circle", <<"Shape">>), Class("Rectangle", <<"Shape">>),
                    Class("Square", <<"Shape">>)>>
      [] c = 7 -> <<Class("Rectangle", <<>>)>>
      [] c = 8 -> SquareCell
      [] c = 10 -> AbcImports \o
                   <<Class("Shape", Abstract), Class("Rectangle", <<"Shape">>),
                     Class("Square", <<"Shape">>)>>
      [] c = 12 -> AbcImports \o
                   <<Class("Printer", Abstract), Class("OldPrinter", <<"Printer">>),
                     Class("ModernPrinter", <<"Printer">>)>>
      [] c = 13 -> AbcImports \o
                   <<Class("Printer", Abstract), Class("Fax", Abstract),
                     Class("Scanner", Abstract), Class("OldPrinter", <<"Printer">>),
                     Class("NewPrinter", <<"Printer", "Fax", "Scanner">>)>>
      [] c = 14 -> <<Class("FrontEnd", <<>>), Class("BackEnd", <<>>)>>
      [] c = 15 -> AbcImports \o
                   <<Class("FrontEnd", <<>>), Class("DataSource", Abstract),
                     Class("Database", <<"DataSource">>),
                     Class("API", <<"DataSource">>)>>

\* The names a cell binds.
Defined(c) == {Cell(c)[i].name : i \in 1..Len(Cell(c))}

\* The first of the names that is not bound, "" when all are.
RECURSIVE Unbound(_, _)
Unbound(names, ns) ==
    IF names = <<>> THEN ""
    ELSE IF Head(names) \notin DOMAIN ns THEN Head(names)
    ELSE Unbound(Tail(names), ns)

\* What a statement of cell c binds its name to: an imported object is the
\* same whichever cell imports it; a class is the one its cell defines, built
\* on the objects its bases and decorators are bound to at that moment.
Binding(st, c, ns) ==
    IF st.import
    THEN [cell |-> 0, uses |-> <<>>]
    ELSE [cell |-> c, uses |-> [i \in 1..Len(st.uses) |-> ns[st.uses[i]]]]

\* The statements of cell c run in order; an unbound name raises NameError
\* and ends the cell, what ran before stays bound.
RECURSIVE exec(_, _, _)
exec(stmts, c, ns) ==
    IF stmts = <<>>
    THEN [namespace |-> ns, raised |-> ""]
    ELSE LET st == Head(stmts)
             missing == Unbound(st.uses, ns)
         IN  IF missing # ""
             THEN [namespace |-> ns,
                   raised |-> "NameError: name '" \o missing \o "' is not defined"]
             ELSE exec(Tail(stmts), c, DictSet(ns, st.name, Binding(st, c, ns)))

InitNB ==
    /\ namespace = EmptyDict
    /\ raised = ""
    /\ stdout = <<>>
    /\ LspIdle /\ OcpIdle /\ PolyIdle /\ SumIdle /\ DipIdle /\ IspIdle

\* The user runs cell c.
RunCell(c) ==
    LET r == exec(Cell(c), c, namespace)
    IN  /\ namespace' = r.namespace
        /\ raised' = r.raised
        /\ UNCHANGED nbFrame

\* The user restarts the kernel: a fresh namespace.
RestartKernel ==
    /\ namespace' = EmptyDict
    /\ raised' = ""
    /\ UNCHANGED nbFrame

NextNB ==
    \/ \E c \in Cells : RunCell(c)
    \/ RestartKernel

SpecNB == InitNB /\ [][NextNB]_vars

(***************************************************************************)
(* Claims about the independence of the snippets.                          *)
(***************************************************************************)
\* What cell c binds when it runs on its own in a fresh namespace.
Alone(c) == exec(Cell(c), c, EmptyDict)

\* Cell c ran without an exception and bound its names to what it binds
\* when it runs alone, and left every other name as it was.
RanAsAlone(c) ==
    /\ raised' = ""
    /\ Alone(c).raised = ""
    /\ DOMAIN namespace' = DOMAIN namespace \cup Defined(c)
    /\ \A n \in Defined(c) : namespace'[n] = Alone(c).namespace[n]
    /\ \A n \in DOMAIN namespace \ Defined(c) : namespace'[n] = namespace[n]

AbstractShape_init(d, shape_type) ==
    object_setattr(d, "shape_type", shape_type)

\* Shape(ABC).calculate_area(self): the abstract method's body is pass.
AbstractShape_calculate_area(d) == PyNone

\* Shape("..."): a class with an abstract method cannot be instantiated.
AbstractShape_new == [raised |-> "TypeError"]

\* Circle.__init__(self, radius)
Circle_init(radius) ==
    [class |-> "Circle",
     vars |-> object_setattr(AbstractShape_init(EmptyDict, "circle"),
                             "radius", radius)]

\* Circle.calculate_area with  pi * self.radius * 2.
Circle_calculate_area_radius_times_2(d) ==
    float_mul_int(pi, d["radius"] * 2)

\* Circle.calculate_area(self): the float pi * radius**2.
Circle_calculate_area(d) ==
    float_mul_int(pi, d["radius"] ^ 2)

\* Rectangle.__init__(self, width, height)
PolyRectangle_init(width, height) ==
    [class |-> "Rectangle",
     vars |-> object_setattr(
                  object_setattr(AbstractShape_init(EmptyDict, "rectangle"),
                                 "width", width),
                  "height", height)]

\* Rectangle.calculate_area(self)
PolyRectangle_calculate_area(d) == PyInt(d["width"] * d["height"])

\* Square.__init__(self, side)
PolySquare_init(side) ==
    [class |-> "Square",
     vars |-> object_setattr(AbstractShape_init(EmptyDict, "square"),
                             "side", side)]

\* Square.calculate_area(self)
PolySquare_calculate_area(d) == PyInt(d["side"] ^ 2)

\* obj.calculate_area(): the override of the object's class.
dispatch_calculate_area(obj) ==
    IF obj.class = "Circle" THEN Circle_calculate_area(obj.vars)
    ELSE IF obj.class = "Rectangle" THEN PolyRectangle_calculate_area(obj.vars)
    ELSE IF obj.class = "Square" THEN PolySquare_calculate_area(obj.vars)
    ELSE AbstractShape_calculate_area(obj.vars)

\* The keywords the conditional Shape's constructor reads for a shape type.
Keywords(shape_type) ==
    IF shape_type = "rectangle" THEN {"width", "height"}
    ELSE IF shape_type = "circle" THEN {"radius"}
    ELSE {}

\* The instances a client can construct, each with its arguments.
Constructions ==
    {[obj |-> Circle_init(r), args |-> <<r>>] : r \in Dims}
    \cup {[obj |-> PolyRectangle_init(w, h), args |-> <<w, h>>] :
              w \in Dims, h \in Dims}
    \cup {[obj |-> PolySquare_init(s), args |-> <<s>>] : s \in Dims}

\* A client holds one conditional Shape and one instance of a refactored
\* class, and has called calculate_area on neither.
InitPoly ==
    \E t \in ShapeTypes, kw \in Kwargs, c \in Constructions :
        /\ DOMAIN kw = Keywords(t)
        /\ shape = Shape_init(t, kw).self
        /\ built = [shape_type |-> t, kwargs |-> kw]
        /\ area = NoResult
        /\ refactored = c.obj
        /\ refactored_args = c.args
        /\ refactored_area = NoResult
        /\ raised = ""
        /\ LspIdle /\ SumIdle /\ DipIdle /\ IspIdle /\ NbIdle
        /\ NothingPrinted

\* refactored = Circle(radius)
NewCircle(radius) ==
    /\ refactored' = Circle_init(radius)
    /\ refactored_args' = <<radius>>
    /\ refactored_area' = NoResult
    /\ raised' = ""
    /\ UNCHANGED polyFrame

\* refactored = Rectangle(width, height)
NewRectangle(width, height) ==
    /\ refactored' = PolyRectangle_init(width, height)
    /\ refactored_args' = <<width, height>>
    /\ refactored_area' = NoResult
    /\ raised' = ""
    /\ UNCHANGED polyFrame

\* refactored = Square(side)
NewSquare(side) ==
    /\ refactored' = PolySquare_init(side)
    /\ refactored_args' = <<side>>
    /\ refactored_area' = NoResult
    /\ raised' = ""
    /\ UNCHANGED polyFrame

\* refactored = Shape(shape_type): raises, and binds nothing.
NewAbstractShape ==
    /\ raised' = AbstractShape_new.raised
    /\ UNCHANGED polyVars
    /\ UNCHANGED polyFrame

\* refactored.calculate_area()
RefactoredCalculateArea ==
    /\ refactored_area' = dispatch_calculate_area(refactored)
    /\ raised' = ""
    /\ UNCHANGED <<refactored, refactored_args>>
    /\ UNCHANGED polyFrame

\* The client also constructs conditional Shapes, with the keywords their
\* shape type reads, and calls calculate_area on them.
NextPoly ==
    \/ \E radius \in Dims : NewCircle(radius)
    \/ \E width \in Dims, height \in Dims : NewRectangle(width, height)
    \/ \E side \in Dims : NewSquare(side)
    \/ NewAbstractShape
    \/ RefactoredCalculateArea
    \/ \E t \in ShapeTypes, kw \in Kwargs :
            DOMAIN kw = Keywords(t) /\ NewShape(t, kw)
    \/ ShapeCalculateArea

SpecPoly == InitPoly /\ [][NextPoly]_vars

(***************************************************************************)
(* Claims about the refactored Shape classes.                              *)
(***************************************************************************)
\* The conditional Shape was constructed as Shape("rectangle", width=w,
\* height=h) and the refactored instance as Rectangle(w, h), for the same w
\* and h.
RectangleCounterparts ==
    /\ refactored.class = "Rectangle"
    /\ built["shape_type"] = "rectangle"
    /\ built["kwargs"] = [width |-> refactored_args[1],
                          height |-> refactored_args[2]]

\* The conditional Shape was constructed as Shape("circle", radius=r) and the
\* refactored instance as Circle(r), for the same r.
CircleCounterparts ==
    /\ refactored.class = "Circle"
    /\ built["shape_type"] = "circle"
    /\ built["kwargs"] = [radius |-> refactored_args[1]]

\* Both objects have returned from calculate_area().
BothCalculated == area # NoResult /\ refactored_area # NoResult

\* C11: Rectangle(w, h).calculate_area() returns what
\* Shape("rectangle", width=w, height=h).calculate_area() returns, and
\* Circle(r).calculate_area() returns what
\* Shape("circle", radius=r).calculate_area() returns; each of the two
\* instances has the .shape_type of its conditional counterpart, "rectangle"
\* and "circle"; Square(s) has the .shape_type "square" and the area s**2.
C11_RefactoringPreservesResults ==
    /\ RectangleCounterparts =>
        /\ refactored.vars["shape_type"] = "rectangle"
        /\ refactored.vars["shape_type"] = shape["shape_type"]
        /\ BothCalculated => refactored_area = area
    /\ CircleCounterparts =>
        /\ refactored.vars["shape_type"] = "circle"
        /\ refactored.vars["shape_type"] = shape["shape_type"]
        /\ BothCalculated => refactored_area = area
    /\ refactored.class = "Square" =>
        /\ refactored.vars["shape_type"] = "square"
        /\ refactored_area # NoResult =>
                refactored_area = PyInt(refactored_args[1] ^ 2)

\* C11 witness: Circle(5).calculate_area() and
\* Shape("circle", radius=5).calculate_area() both returned the float
\* 5526748243772219 * 2^-46.
C11_Witness ==
    /\ CircleCounterparts
    /\ refactored_args = <<5>>
    /\ BothCalculated
    /\ refactored_area = area
    /\ area = [type |-> "float", mant |-> <<2219, 4377, 7482, 5526>>,
               exp |-> 0 - 46]

====
